---- MODULE Spec2Model ----
(***************************************************************************)
(* The Redis worker registry of dago-adapters                              *)
(* (pkg/worker_registry/redis/registry.go) as a state machine.             *)
(*                                                                         *)
(* The state is the Redis keyspace under the worker prefix (one entry per  *)
(* key: the JSON payload and the key's expiry time), the clock, the        *)
(* registry's ttl, and the call and result of the last operation.  Every   *)
(* registry method is one action; the outcome of each Redis call (success  *)
(* or I/O error) and the reply of XINFO CONSUMERS are inputs of the        *)
(* action.  Strings the code searches with strings.Contains are sequences  *)
(* of words, the words searched for among them.  Time is counted in ticks. *)
(***************************************************************************)
EXTENDS Integers, Sequences, FiniteSets, TLC

VARIABLES
    now,    \* the clock read by time.Now() / time.Since()
    ttl,    \* Registry.ttl
    store,  \* Redis: key -> [present, data, expireAt]
    last,   \* the last registry call: its name, arguments and result
    flight  \* the calls in flight: a Heartbeat between its read and its
            \* write, a scan (ListWorkers, CleanupStaleWorkers) in its loop

vars == <<now, ttl, store, last, flight>>

----------------------------------------------------------------------------
(* Bounds of the model *)

MaxTime == 2
MaxTTL == 1
MaxPending == 2

----------------------------------------------------------------------------
(* Constants of the program *)

workerKeyPrefix == <<"dago:workers:">>

executorStreamKey == "executor.work"
routerStreamKey == "router.work"
executorConsumerGroup == "executor-workers"
routerConsumerGroup == "router-workers"

WorkerTypeExecutor == "executor"
WorkerTypeRouter == "router"

WorkerStatusIdle == "idle"
WorkerStatusBusy == "busy"
WorkerStatusUnhealthy == "unhealthy"

\* the substrings inferWorkerType looks for, and the one getPendingTasksForWorker looks for
executorSubstr == <<"executor">>
routerSubstr == <<"router">>
nogroupSubstr == <<"NOGROUP">>

----------------------------------------------------------------------------
(* Inputs: worker ids, types, statuses, tasks *)

\* "executor-1", "router-1", "worker-x", "router-executor"
IdExecutor == executorSubstr \o <<"-", "1">>
IdRouter == routerSubstr \o <<"-", "1">>
IdPlain == <<"worker", "-", "x">>
IdBoth == routerSubstr \o <<"-">> \o executorSubstr

WorkerIDs == {IdExecutor, IdRouter, IdPlain, IdBoth}

WorkerTypes == {WorkerTypeExecutor, WorkerTypeRouter}
WorkerStatuses == {WorkerStatusIdle, WorkerStatusBusy, WorkerStatusUnhealthy}
Tasks == {"", "task-7"}

\* errors of a registry call
ErrNone == "none"
ErrNotFound == "worker not found"
ErrGet == "failed to get worker"
ErrRegister == "failed to register worker"
ErrHeartbeat == "failed to update heartbeat"
ErrDel == "failed to unregister worker"
ErrScan == "failed to scan worker keys"

NoExpiry == -1

----------------------------------------------------------------------------
(* strings.Contains *)

Contains(s, substr) ==
    \E i \in 1..(Len(s) - Len(substr) + 1) :
        SubSeq(s, i, i + Len(substr) - 1) = substr

----------------------------------------------------------------------------
(* ports.WorkerInfo and its JSON encoding *)

NoWorker ==
    [id |-> <<>>, type |-> "", status |-> "", registered_at |-> 0,
     last_heartbeat |-> 0, current_task |-> "", pending_tasks |-> 0]

\* json.Marshal(worker): the object as a sequence of <<field name, value>> pairs
Marshal(w) ==
    << <<"id", w.id>>, <<"type", w.type>>, <<"status", w.status>>,
       <<"registered_at", w.registered_at>>,
       <<"last_heartbeat", w.last_heartbeat>>,
       <<"current_task", w.current_task>>,
       <<"pending_tasks", w.pending_tasks>> >>

JsonField(data, name) ==
    LET i == CHOOSE j \in 1..Len(data) : data[j][1] = name IN data[i][2]

\* json.Unmarshal(data, &worker)
Unmarshal(data) ==
    [id |-> JsonField(data, "id"),
     type |-> JsonField(data, "type"),
     status |-> JsonField(data, "status"),
     registered_at |-> JsonField(data, "registered_at"),
     last_heartbeat |-> JsonField(data, "last_heartbeat"),
     current_task |-> JsonField(data, "current_task"),
     pending_tasks |-> JsonField(data, "pending_tasks")]

----------------------------------------------------------------------------
(* The Redis keyspace *)

getWorkerKey(workerID) == workerKeyPrefix \o workerID

Keys == {getWorkerKey(id) : id \in WorkerIDs}

\* the order in which SCAN yields the keys
KeyOrder ==
    <<getWorkerKey(IdExecutor), getWorkerKey(IdRouter), getWorkerKey(IdPlain),
      getWorkerKey(IdBoth)>>

Absent == [present |-> FALSE, data |-> <<>>, expireAt |-> NoExpiry]

\* a Set that keeps the entry of a key that exists (SET ... NX)
redisSetNX(st, key, data) ==
    IF st[key].present THEN st
    ELSE [st EXCEPT ![key] =
            [present |-> TRUE, data |-> data,
             expireAt |-> IF ttl > 0 THEN now + ttl ELSE NoExpiry]]

\* a Set that leaves the expiry of a key that exists as it is (SET ... KEEPTTL)
redisSetKeepTTL(st, key, data) ==
    [st EXCEPT ![key] =
        [present |-> TRUE, data |-> data,
         expireAt |-> IF st[key].present THEN st[key].expireAt
                      ELSE IF ttl > 0 THEN now + ttl ELSE NoExpiry]]

\* client.Set(ctx, key, data, r.ttl): a zero ttl sets no expiry
redisSet(st, key, data) ==
    [st EXCEPT ![key] =
        [present |-> TRUE, data |-> data,
         expireAt |-> IF ttl > 0 THEN now + ttl ELSE NoExpiry]]

\* a Del that removes nothing
redisDelNoop(st, key) == st

\* client.Del(ctx, key)
redisDel(st, key) == [st EXCEPT ![key] = Absent]

\* client.Get(ctx, key).Bytes(): redis.Nil for a missing key
redisGet(st, key, ok) ==
    IF ~ok THEN [err |-> "ioerr", data |-> <<>>]
    ELSE IF ~st[key].present THEN [err |-> "nil", data |-> <<>>]
    ELSE [err |-> "", data |-> st[key].data]

\* the store drops a key once its ttl has elapsed
Expired(e, t) == e.present /\ e.expireAt # NoExpiry /\ t > e.expireAt

----------------------------------------------------------------------------
(* Registry helpers *)

\* an inference that looks for "router" first
inferWorkerTypeRouterFirst(workerID) ==
    IF Contains(workerID, routerSubstr) THEN WorkerTypeRouter
    ELSE IF Contains(workerID, executorSubstr) THEN WorkerTypeExecutor
    ELSE WorkerTypeExecutor

inferWorkerType(workerID) ==
    IF Contains(workerID, executorSubstr) THEN WorkerTypeExecutor
    ELSE IF Contains(workerID, routerSubstr) THEN WorkerTypeRouter
    ELSE WorkerTypeExecutor

\* XINFO CONSUMERS replies: an error message, or the consumers of the group
ReplyNoGroup ==
    [err |-> nogroupSubstr \o <<" ", "No such consumer group">>,
     consumers |-> <<>>]
ReplyNoStream ==
    [err |-> <<"ERR", " ", "no such key">>,
     consumers |-> <<>>]
ReplyTimeout ==
    [err |-> <<"i/o timeout">>,
     consumers |-> <<>>]
ReplyConsumers(cs) == [err |-> <<>>, consumers |-> cs]

QueueReplies(workerID) ==
    {ReplyNoGroup, ReplyNoStream, ReplyTimeout, ReplyConsumers(<<>>)}
    \cup {ReplyConsumers(<<[name |-> <<"other">>, pending |-> MaxPending],
                          [name |-> workerID, pending |-> p]>>) : p \in 0..MaxPending}

RECURSIVE findConsumer(_, _)
findConsumer(consumers, workerID) ==
    IF consumers = <<>> THEN 0
    ELSE IF Head(consumers).name = workerID THEN Head(consumers).pending
    ELSE findConsumer(Tail(consumers), workerID)

\* the result is [val, err]; reply is what XInfoConsumers answers for the
\* stream and group of the worker's type
getPendingTasksForWorker(workerID, workerType, reply) ==
    IF workerType \notin {WorkerTypeExecutor, WorkerTypeRouter}
    THEN [val |-> 0, err |-> FALSE]
    ELSE IF reply.err # <<>>
    THEN IF Contains(reply.err, nogroupSubstr)
         THEN [val |-> 0, err |-> FALSE]
         ELSE [val |-> 0, err |-> TRUE]
    ELSE [val |-> findConsumer(reply.consumers, workerID), err |-> FALSE]

RECURSIVE anyEqual(_, _)
anyEqual(list, x) ==
    IF list = <<>> THEN FALSE
    ELSE IF Head(list) = x THEN TRUE
    ELSE anyEqual(Tail(list), x)

\* a filter that forgets HealthyOnly
matchesFilterNoHealth(worker, filter, isHealthy) ==
    IF Len(filter.Types) > 0 /\ ~anyEqual(filter.Types, worker.type) THEN FALSE
    ELSE IF Len(filter.Statuses) > 0 /\ ~anyEqual(filter.Statuses, worker.status) THEN FALSE
    ELSE TRUE

matchesFilter(worker, filter, isHealthy) ==
    IF Len(filter.Types) > 0 /\ ~anyEqual(filter.Types, worker.type) THEN FALSE
    ELSE IF Len(filter.Statuses) > 0 /\ ~anyEqual(filter.Statuses, worker.status) THEN FALSE
    ELSE IF filter.HealthyOnly /\ ~isHealthy THEN FALSE
    ELSE TRUE

\* SCAN with the pattern workerKeyPrefix*: every key of the keyspace, once
scanKeys(st) == SelectSeq(KeyOrder, LAMBDA k : st[k].present)

----------------------------------------------------------------------------
(* Registry methods as functions of the store, the clock and the outcomes   *)
(* of the Redis calls                                                       *)

\* a GetWorker that measures the age from registered_at
GetWorkerByRegisteredAt(st, workerID, getOk) ==
    LET got == redisGet(st, getWorkerKey(workerID), getOk) IN
    IF got.err = "nil" THEN [err |-> ErrNotFound, worker |-> NoWorker]
    ELSE IF got.err # "" THEN [err |-> ErrGet, worker |-> NoWorker]
    ELSE LET worker == Unmarshal(got.data) IN
         [err |-> ErrNone,
          worker |-> IF now - worker.registered_at > ttl
                     THEN [worker EXCEPT !.status = WorkerStatusUnhealthy]
                     ELSE worker]

\* GetWorker: [err, worker]
GetWorker(st, workerID, getOk) ==
    LET got == redisGet(st, getWorkerKey(workerID), getOk) IN
    IF got.err = "nil" THEN [err |-> ErrNotFound, worker |-> NoWorker]
    ELSE IF got.err # "" THEN [err |-> ErrGet, worker |-> NoWorker]
    ELSE LET worker == Unmarshal(got.data) IN
         [err |-> ErrNone,
          worker |-> IF now - worker.last_heartbeat > ttl
                     THEN [worker EXCEPT !.status = WorkerStatusUnhealthy]
                     ELSE worker]

\* a Heartbeat that stamps registered_at anew on every call
HeartbeatRecordFresh(st, workerID, status, currentTask, getOk, reply) ==
    LET got == GetWorker(st, workerID, getOk)
        worker ==
            IF got.err # ErrNone
            THEN [id |-> workerID, type |-> inferWorkerType(workerID),
                  status |-> status, registered_at |-> now,
                  last_heartbeat |-> now, current_task |-> currentTask,
                  pending_tasks |-> 0]
            ELSE [got.worker EXCEPT !.status = status,
                                    !.registered_at = now,
                                    !.last_heartbeat = now,
                                    !.current_task = currentTask]
        pending == getPendingTasksForWorker(workerID, worker.type, reply)
    IN IF pending.err THEN worker
       ELSE [worker EXCEPT !.pending_tasks = pending.val]

\* a Heartbeat that leaves last_heartbeat of an existing record as it was
HeartbeatRecordStale(st, workerID, status, currentTask, getOk, reply) ==
    LET got == GetWorker(st, workerID, getOk)
        worker ==
            IF got.err # ErrNone
            THEN [id |-> workerID, type |-> inferWorkerType(workerID),
                  status |-> status, registered_at |-> now,
                  last_heartbeat |-> now, current_task |-> currentTask,
                  pending_tasks |-> 0]
            ELSE [got.worker EXCEPT !.status = status,
                                    !.current_task = currentTask]
        pending == getPendingTasksForWorker(workerID, worker.type, reply)
    IN IF pending.err THEN worker
       ELSE [worker EXCEPT !.pending_tasks = pending.val]

\* a Heartbeat that writes back the Unhealthy its read computed
HeartbeatRecordKeepsUnhealthy(st, workerID, status, currentTask, getOk, reply) ==
    LET got == GetWorker(st, workerID, getOk)
        worker ==
            IF got.err # ErrNone
            THEN [id |-> workerID, type |-> inferWorkerType(workerID),
                  status |-> status, registered_at |-> now,
                  last_heartbeat |-> now, current_task |-> currentTask,
                  pending_tasks |-> 0]
            ELSE [got.worker EXCEPT
                    !.status = IF @ = WorkerStatusUnhealthy THEN @ ELSE status,
                    !.last_heartbeat = now,
                    !.current_task = currentTask]
        pending == getPendingTasksForWorker(workerID, worker.type, reply)
    IN IF pending.err THEN worker
       ELSE [worker EXCEPT !.pending_tasks = pending.val]

\* Heartbeat, up to the write: the record it is about to store
\* a Heartbeat that infers the type of a record it has read, too
HeartbeatRecordRetypes(st, workerID, status, currentTask, getOk, reply) ==
    LET got == GetWorker(st, workerID, getOk)
        worker ==
            IF got.err # ErrNone
            THEN [id |-> workerID, type |-> inferWorkerType(workerID),
                  status |-> status, registered_at |-> now,
                  last_heartbeat |-> now, current_task |-> currentTask,
                  pending_tasks |-> 0]
            ELSE [got.worker EXCEPT !.type = inferWorkerType(workerID),
                                    !.status = status,
                                    !.last_heartbeat = now,
                                    !.current_task = currentTask]
        pending == getPendingTasksForWorker(workerID, worker.type, reply)
    IN IF pending.err THEN worker
       ELSE [worker EXCEPT !.pending_tasks = pending.val]

HeartbeatRecord(st, workerID, status, currentTask, getOk, reply) ==
    LET got == GetWorker(st, workerID, getOk)
        worker ==
            IF got.err # ErrNone
            THEN [id |-> workerID, type |-> inferWorkerType(workerID),
                  status |-> status, registered_at |-> now,
                  last_heartbeat |-> now, current_task |-> currentTask,
                  pending_tasks |-> 0]
            ELSE [got.worker EXCEPT !.status = status,
                                    !.last_heartbeat = now,
                                    !.current_task = currentTask]
        pending == getPendingTasksForWorker(workerID, worker.type, reply)
    IN IF pending.err THEN worker
       ELSE [worker EXCEPT !.pending_tasks = pending.val]

\* a listing that stops at the first key it cannot read
RECURSIVE listLoopStops(_, _, _, _, _)
listLoopStops(st, keys, filter, getFail, workers) ==
    IF keys = <<>> THEN workers
    ELSE LET key == Head(keys)
             got == redisGet(st, key, key \notin getFail)
         IN IF got.err # "" THEN workers
            ELSE LET decoded == Unmarshal(got.data)
                     isHealthy == now - decoded.last_heartbeat <= ttl
                     worker == IF ~isHealthy
                               THEN [decoded EXCEPT !.status = WorkerStatusUnhealthy]
                               ELSE decoded
                 IN IF ~matchesFilter(worker, filter, isHealthy)
                    THEN listLoopStops(st, Tail(keys), filter, getFail, workers)
                    ELSE listLoopStops(st, Tail(keys), filter, getFail,
                                       Append(workers, worker))

RECURSIVE listLoop(_, _, _, _, _)
listLoop(st, keys, filter, getFail, workers) ==
    IF keys = <<>> THEN workers
    ELSE LET key == Head(keys)
             got == redisGet(st, key, key \notin getFail)
         IN IF got.err # "" THEN listLoop(st, Tail(keys), filter, getFail, workers)
            ELSE LET decoded == Unmarshal(got.data)
                     isHealthy == now - decoded.last_heartbeat <= ttl
                     worker == IF ~isHealthy
                               THEN [decoded EXCEPT !.status = WorkerStatusUnhealthy]
                               ELSE decoded
                 IN IF ~matchesFilter(worker, filter, isHealthy)
                    THEN listLoop(st, Tail(keys), filter, getFail, workers)
                    ELSE listLoop(st, Tail(keys), filter, getFail, Append(workers, worker))

\* ListWorkers: [err, workers]
ListWorkers(st, filter, scanOk, getFail) ==
    IF ~scanOk THEN [err |-> ErrScan, workers |-> <<>>]
    ELSE [err |-> ErrNone, workers |-> listLoop(st, scanKeys(st), filter, getFail, <<>>)]

NoStats ==
    [Type |-> "", TotalWorkers |-> 0, IdleWorkers |-> 0, BusyWorkers |-> 0,
     UnhealthyWorkers |-> 0, TotalPendingTasks |-> 0]

\* an aggregation that leaves the pending tasks of Unhealthy workers out
RECURSIVE statsLoopHealthyPending(_, _)
statsLoopHealthyPending(workers, stats) ==
    IF workers = <<>> THEN stats
    ELSE LET worker == Head(workers) IN
         IF worker.status = WorkerStatusIdle
         THEN statsLoopHealthyPending(Tail(workers),
                  [stats EXCEPT !.IdleWorkers = @ + 1,
                                !.TotalPendingTasks = @ + worker.pending_tasks])
         ELSE IF worker.status = WorkerStatusBusy
         THEN statsLoopHealthyPending(Tail(workers),
                  [stats EXCEPT !.BusyWorkers = @ + 1,
                                !.TotalPendingTasks = @ + worker.pending_tasks])
         ELSE IF worker.status = WorkerStatusUnhealthy
         THEN statsLoopHealthyPending(Tail(workers),
                  [stats EXCEPT !.UnhealthyWorkers = @ + 1])
         ELSE statsLoopHealthyPending(Tail(workers), stats)

\* an aggregation that counts a worker of any other status as Idle
RECURSIVE statsLoopOtherIsIdle(_, _)
statsLoopOtherIsIdle(workers, stats) ==
    IF workers = <<>> THEN stats
    ELSE LET worker == Head(workers)
             counted ==
                 IF worker.status = WorkerStatusBusy
                 THEN [stats EXCEPT !.BusyWorkers = @ + 1]
                 ELSE IF worker.status = WorkerStatusUnhealthy
                 THEN [stats EXCEPT !.UnhealthyWorkers = @ + 1]
                 ELSE [stats EXCEPT !.IdleWorkers = @ + 1]
         IN statsLoopOtherIsIdle(Tail(workers),
                [counted EXCEPT !.TotalPendingTasks = @ + worker.pending_tasks])

RECURSIVE statsLoop(_, _)
statsLoop(workers, stats) ==
    IF workers = <<>> THEN stats
    ELSE LET worker == Head(workers)
             counted ==
                 IF worker.status = WorkerStatusIdle
                 THEN [stats EXCEPT !.IdleWorkers = @ + 1]
                 ELSE IF worker.status = WorkerStatusBusy
                 THEN [stats EXCEPT !.BusyWorkers = @ + 1]
                 ELSE IF worker.status = WorkerStatusUnhealthy
                 THEN [stats EXCEPT !.UnhealthyWorkers = @ + 1]
                 ELSE stats
         IN statsLoop(Tail(workers),
                      [counted EXCEPT !.TotalPendingTasks = @ + worker.pending_tasks])

\* a GetWorkerStats that refuses a type that is neither Executor nor Router
GetWorkerStatsChecked(st, workerType, scanOk, getFail) ==
    LET filter == [Types |-> <<workerType>>, Statuses |-> <<>>, HealthyOnly |-> FALSE]
        listed == ListWorkers(st, filter, scanOk, getFail)
    IN IF workerType \notin {WorkerTypeExecutor, WorkerTypeRouter}
       THEN [err |-> "unsupported worker type", stats |-> NoStats]
       ELSE IF listed.err # ErrNone THEN [err |-> listed.err, stats |-> NoStats]
       ELSE [err |-> ErrNone,
             stats |-> statsLoop(listed.workers,
                                 [NoStats EXCEPT !.Type = workerType,
                                                 !.TotalWorkers = Len(listed.workers)])]

\* GetWorkerStats: [err, stats]
GetWorkerStats(st, workerType, scanOk, getFail) ==
    LET filter == [Types |-> <<workerType>>, Statuses |-> <<>>, HealthyOnly |-> FALSE]
        listed == ListWorkers(st, filter, scanOk, getFail)
    IN IF listed.err # ErrNone THEN [err |-> listed.err, stats |-> NoStats]
       ELSE [err |-> ErrNone,
             stats |-> statsLoop(listed.workers,
                                 [NoStats EXCEPT !.Type = workerType,
                                                 !.TotalWorkers = Len(listed.workers)])]

\* a sweep that also removes the records exactly timeout old
RECURSIVE cleanupLoopInclusive(_, _, _, _, _, _)
cleanupLoopInclusive(st, keys, timeout, getFail, delFail, cleaned) ==
    IF keys = <<>> THEN [store |-> st, cleaned |-> cleaned]
    ELSE LET key == Head(keys)
             got == redisGet(st, key, key \notin getFail)
         IN IF got.err # ""
            THEN cleanupLoopInclusive(st, Tail(keys), timeout, getFail, delFail, cleaned)
            ELSE LET worker == Unmarshal(got.data) IN
                 IF now - worker.last_heartbeat >= timeout /\ key \notin delFail
                 THEN cleanupLoopInclusive(redisDel(st, key), Tail(keys), timeout,
                                           getFail, delFail, cleaned + 1)
                 ELSE cleanupLoopInclusive(st, Tail(keys), timeout, getFail, delFail,
                                           cleaned)

\* a sweep that stops at the first delete that fails
RECURSIVE cleanupLoopStops(_, _, _, _, _, _)
cleanupLoopStops(st, keys, timeout, getFail, delFail, cleaned) ==
    IF keys = <<>> THEN [store |-> st, cleaned |-> cleaned]
    ELSE LET key == Head(keys)
             got == redisGet(st, key, key \notin getFail)
         IN IF got.err # ""
            THEN cleanupLoopStops(st, Tail(keys), timeout, getFail, delFail, cleaned)
            ELSE LET worker == Unmarshal(got.data) IN
                 IF now - worker.last_heartbeat > timeout
                 THEN IF key \in delFail
                      THEN [store |-> st, cleaned |-> cleaned]
                      ELSE cleanupLoopStops(redisDel(st, key), Tail(keys), timeout,
                                            getFail, delFail, cleaned + 1)
                 ELSE cleanupLoopStops(st, Tail(keys), timeout, getFail, delFail, cleaned)

RECURSIVE cleanupLoop(_, _, _, _, _, _)
cleanupLoop(st, keys, timeout, getFail, delFail, cleaned) ==
    IF keys = <<>> THEN [store |-> st, cleaned |-> cleaned]
    ELSE LET key == Head(keys)
             got == redisGet(st, key, key \notin getFail)
         IN IF got.err # "" THEN cleanupLoop(st, Tail(keys), timeout, getFail, delFail, cleaned)
            ELSE LET worker == Unmarshal(got.data) IN
                 IF now - worker.last_heartbeat > timeout
                 THEN IF key \in delFail
                      THEN cleanupLoop(st, Tail(keys), timeout, getFail, delFail, cleaned)
                      ELSE cleanupLoop(redisDel(st, key), Tail(keys), timeout,
                                       getFail, delFail, cleaned + 1)
                 ELSE cleanupLoop(st, Tail(keys), timeout, getFail, delFail, cleaned)

\* CleanupStaleWorkers: [err, cleaned, store]
CleanupStaleWorkers(st, timeout, scanOk, getFail, delFail) ==
    IF ~scanOk THEN [err |-> ErrScan, cleaned |-> 0, store |-> st]
    ELSE LET done == cleanupLoop(st, scanKeys(st), timeout, getFail, delFail, 0) IN
         [err |-> ErrNone, cleaned |-> done.cleaned, store |-> done.store]

----------------------------------------------------------------------------
(* Calls and their results                                                  *)
(*                                                                          *)
(* Calls are sequential: last holds the call that has just returned, until  *)
(* the caller takes the result (Return).  Two call sequences go on without  *)
(* a Return in between: GetWorker right after Register (time may pass in    *)
(* between), and Unregister right after Unregister.                         *)

Returned == [op |-> "none"]

IsIdle == last.op = "none"

\* no call is in flight
NoFlight == [hb |-> [pc |-> "idle"], sw |-> [pc |-> "idle"]]

Present(st) == {k \in Keys : st[k].present}

\* no worker other than workerID is stored
Alone(workerID) == Present(store) \subseteq {getWorkerKey(workerID)}

Init ==
    /\ now = 0
    /\ flight = NoFlight
    /\ ttl \in 1..MaxTTL
    /\ store = [k \in Keys |-> Absent]
    /\ last = Returned

Return ==
    /\ ~IsIdle
    /\ last' = Returned
    /\ UNCHANGED <<flight, now, ttl, store>>

\* time passes; the store drops the keys whose ttl has elapsed
Tick ==
    /\ last.op \in {"none", "Register"}
    /\ now < MaxTime
    /\ now' = now + 1
    /\ store' = [k \in Keys |-> IF Expired(store[k], now + 1) THEN Absent ELSE store[k]]
    /\ UNCHANGED <<flight, ttl, last>>

Register(worker, setOk) ==
    /\ store' = IF setOk THEN redisSet(store, getWorkerKey(worker.id), Marshal(worker))
                ELSE store
    /\ last' = IF setOk
               THEN [op |-> "Register", id |-> worker.id, err |-> ErrNone,
                     at |-> now, worker |-> worker,
                     replaced |-> store[getWorkerKey(worker.id)].present]
               ELSE [op |-> "Register", id |-> worker.id, err |-> ErrRegister,
                     worker |-> NoWorker]
    /\ UNCHANGED <<flight, now, ttl>>

\* an Unregister that refuses an id that has no record
UnregisterStrict(workerID, delOk) ==
    LET exists == store[getWorkerKey(workerID)].present IN
    /\ store' = IF delOk /\ exists THEN redisDel(store, getWorkerKey(workerID)) ELSE store
    /\ last' = [op |-> "Unregister", id |-> workerID,
                err |-> IF ~delOk THEN ErrDel
                        ELSE IF ~exists THEN ErrNotFound ELSE ErrNone,
                again |-> last.op = "Unregister" /\ last.id = workerID
                          /\ last.err = ErrNone]
    /\ UNCHANGED <<flight, now, ttl>>

Unregister(workerID, delOk) ==
    /\ store' = IF delOk THEN redisDel(store, getWorkerKey(workerID)) ELSE store
    /\ last' = [op |-> "Unregister", id |-> workerID,
                err |-> IF delOk THEN ErrNone ELSE ErrDel,
                again |-> last.op = "Unregister" /\ last.id = workerID
                          /\ last.err = ErrNone]
    /\ UNCHANGED <<flight, now, ttl>>

Heartbeat(workerID, status, currentTask, getOk, reply, setOk) ==
    LET worker == HeartbeatRecord(store, workerID, status, currentTask, getOk, reply) IN
    /\ store' = IF setOk THEN redisSet(store, getWorkerKey(workerID), Marshal(worker))
                ELSE store
    /\ last' = IF setOk
               THEN [op |-> "Heartbeat", id |-> workerID, err |-> ErrNone,
                     at |-> now, getOk |-> getOk,
                     absent |-> ~store[getWorkerKey(workerID)].present,
                     read |-> GetWorker(store, workerID, getOk).worker,
                     status |-> status, task |-> currentTask,
                     pending |-> getPendingTasksForWorker(workerID, worker.type, reply)]
               ELSE [op |-> "Heartbeat", id |-> workerID, err |-> ErrHeartbeat,
                     getOk |-> getOk,
                     absent |-> ~store[getWorkerKey(workerID)].present,
                     read |-> GetWorker(store, workerID, getOk).worker]
    /\ UNCHANGED <<flight, now, ttl>>

\* the successful write of workerID that the call now made follows directly
Wrote(workerID) ==
    IF last.op \in {"Register", "Heartbeat"} /\ last.id = workerID /\ last.err = ErrNone
    THEN [op |-> last.op, at |-> last.at,
          status |-> IF last.op = "Register" THEN last.worker.status ELSE last.status]
    ELSE [op |-> "none"]

\* a GetWorker that stores the Unhealthy it computes
GetWorkerCallPersists(workerID, getOk) ==
    LET got == GetWorker(store, workerID, getOk) IN
    /\ last' = [op |-> "GetWorker", id |-> workerID, err |-> got.err,
                worker |-> got.worker, getOk |-> getOk,
                registered |-> IF last.op = "Register" /\ last.id = workerID
                                  /\ last.err = ErrNone
                               THEN last.worker ELSE NoWorker,
                replaced |-> last.op = "Register" /\ last.id = workerID
                             /\ last.err = ErrNone /\ last.replaced,
                wrote |-> Wrote(workerID)]
    /\ store' = IF got.err = ErrNone /\ got.worker.status = WorkerStatusUnhealthy
                THEN redisSet(store, getWorkerKey(workerID), Marshal(got.worker))
                ELSE store
    /\ UNCHANGED <<flight, now, ttl>>

GetWorkerCall(workerID, getOk) ==
    LET got == GetWorker(store, workerID, getOk) IN
    /\ last' = [op |-> "GetWorker", id |-> workerID, err |-> got.err,
                worker |-> got.worker, getOk |-> getOk,
                registered |-> IF last.op = "Register" /\ last.id = workerID
                                  /\ last.err = ErrNone
                               THEN last.worker ELSE NoWorker,
                replaced |-> last.op = "Register" /\ last.id = workerID
                             /\ last.err = ErrNone /\ last.replaced,
                wrote |-> Wrote(workerID)]
    /\ UNCHANGED <<flight, now, ttl, store>>

ListWorkersCall(filter, scanOk, getFail) ==
    LET listed == ListWorkers(store, filter, scanOk, getFail) IN
    /\ last' = IF scanOk
               THEN [op |-> "ListWorkers", err |-> listed.err, filter |-> filter,
                     getFail |-> getFail, workers |-> listed.workers]
               ELSE [op |-> "ListWorkers", err |-> listed.err]
    /\ UNCHANGED <<flight, now, ttl, store>>

GetWorkerStatsCall(workerType, scanOk, getFail) ==
    LET got == GetWorkerStats(store, workerType, scanOk, getFail) IN
    /\ last' = IF scanOk
               THEN [op |-> "GetWorkerStats", err |-> got.err, type |-> workerType,
                     getFail |-> getFail, stats |-> got.stats]
               ELSE [op |-> "GetWorkerStats", err |-> got.err]
    /\ UNCHANGED <<flight, now, ttl, store>>

CleanupStaleWorkersCall(timeout, scanOk, getFail, delFail) ==
    LET done == CleanupStaleWorkers(store, timeout, scanOk, getFail, delFail) IN
    /\ store' = done.store
    /\ last' = IF scanOk
               THEN [op |-> "CleanupStaleWorkers", err |-> done.err,
                     timeout |-> timeout, getFail |-> getFail, delFail |-> delFail,
                     cleaned |-> done.cleaned]
               ELSE [op |-> "CleanupStaleWorkers", err |-> done.err,
                     cleaned |-> done.cleaned]
    /\ UNCHANGED <<flight, now, ttl>>

----------------------------------------------------------------------------
(* Spec: the life of one worker at a time (Register, Heartbeat, Unregister, *)
(* GetWorker), every field of its record free                               *)

\* the records a caller passes to Register: timestamps are clock readings
RegisterInputs ==
    [id : WorkerIDs, type : WorkerTypes, status : WorkerStatuses,
     registered_at : {0, now}, last_heartbeat : {0, now},
     current_task : Tasks, pending_tasks : {0, MaxPending}]

HeartbeatInputs == WorkerStatuses \X Tasks

DoRegister ==
    /\ IsIdle
    /\ \E worker \in RegisterInputs, setOk \in BOOLEAN :
        Alone(worker.id) /\ Register(worker, setOk)

DoUnregister ==
    /\ last.op \in {"none", "Unregister"}
    /\ \E id \in WorkerIDs, delOk \in BOOLEAN : Unregister(id, delOk)

DoHeartbeat ==
    /\ IsIdle
    /\ \E id \in WorkerIDs, in \in HeartbeatInputs, getOk \in BOOLEAN, setOk \in BOOLEAN :
        \E reply \in QueueReplies(id) :
            Alone(id) /\ Heartbeat(id, in[1], in[2], getOk, reply, setOk)

DoGetWorker ==
    /\ last.op \in {"none", "Register"}
    /\ \E id \in WorkerIDs, getOk \in BOOLEAN : GetWorkerCall(id, getOk)

Next ==
    \/ Tick
    \/ Return
    \/ DoRegister
    \/ DoUnregister
    \/ DoHeartbeat
    \/ DoGetWorker

Spec == Init /\ [][Next]_vars

----------------------------------------------------------------------------
(* SpecQuery: a population of workers (Register, Unregister) under the      *)
(* query engine (ListWorkers, GetWorkerStats) and the stale sweeper         *)

QueryIDs == {IdExecutor, IdRouter, IdPlain}
QueryKeys == {getWorkerKey(id) : id \in QueryIDs}

\* <<type, status, current_task, pending_tasks, last heartbeat is now>>
QueryProfiles ==
    {<<WorkerTypeExecutor, WorkerStatusIdle, "", 0, TRUE>>,
     <<WorkerTypeExecutor, WorkerStatusBusy, "task-7", MaxPending, TRUE>>,
     <<WorkerTypeExecutor, WorkerStatusUnhealthy, "", 1, TRUE>>,
     <<WorkerTypeRouter, WorkerStatusBusy, "task-7", MaxPending, FALSE>>,
     <<WorkerTypeRouter, WorkerStatusIdle, "", 1, TRUE>>,
     <<WorkerTypeExecutor, WorkerStatusIdle, "", MaxPending, FALSE>>}

QueryRegisterInputs ==
    {[id |-> id, type |-> p[1], status |-> p[2],
      registered_at |-> IF p[5] THEN now ELSE 0,
      last_heartbeat |-> IF p[5] THEN now ELSE 0,
      current_task |-> p[3], pending_tasks |-> p[4]] :
        id \in QueryIDs, p \in QueryProfiles}

TypeFilters == {<<>>, <<WorkerTypeExecutor>>, <<WorkerTypeRouter, WorkerTypeExecutor>>}
StatusFilters == {<<>>, <<WorkerStatusIdle>>, <<WorkerStatusUnhealthy, WorkerStatusBusy>>}
Filters == [Types : TypeFilters, Statuses : StatusFilters, HealthyOnly : BOOLEAN]

Timeouts == 0..MaxTime

\* the keys whose GET fails during one scan: none, the first or the second
FaultKeys == {getWorkerKey(IdExecutor), getWorkerKey(IdRouter)}
FaultSets == {{}} \cup {{k} : k \in FaultKeys}

\* the keys whose GET and whose DEL fail during one sweep
SweepFaults ==
    {<<{}, {}>>} \cup {<<{k}, {}>> : k \in FaultKeys} \cup {<<{}, {k}>> : k \in FaultKeys}

QueryRegister ==
    /\ IsIdle
    /\ \E worker \in QueryRegisterInputs : Register(worker, TRUE)

QueryUnregister ==
    /\ last.op \in {"none", "Unregister"}
    /\ \E id \in QueryIDs, delOk \in BOOLEAN : Unregister(id, delOk)

DoListWorkers ==
    /\ IsIdle
    /\ \E filter \in Filters, scanOk \in BOOLEAN, getFail \in FaultSets :
        ListWorkersCall(filter, scanOk, getFail)

DoGetWorkerStats ==
    /\ IsIdle
    /\ \E type \in WorkerTypes, scanOk \in BOOLEAN, getFail \in FaultSets :
        GetWorkerStatsCall(type, scanOk, getFail)

DoCleanupStaleWorkers ==
    /\ IsIdle
    /\ \E timeout \in Timeouts, scanOk \in BOOLEAN, faults \in SweepFaults :
        CleanupStaleWorkersCall(timeout, scanOk, faults[1], faults[2])

QueryGetWorker ==
    /\ IsIdle
    /\ \E id \in QueryIDs, getOk \in BOOLEAN : GetWorkerCall(id, getOk)

NextQuery ==
    \/ Tick
    \/ Return
    \/ QueryRegister
    \/ QueryUnregister
    \/ QueryGetWorker
    \/ DoListWorkers
    \/ DoGetWorkerStats
    \/ DoCleanupStaleWorkers

SpecQuery == Init /\ [][NextQuery]_vars

----------------------------------------------------------------------------
(* SpecLive: one worker that registers, heartbeats, falls silent and is     *)
(* looked up while time passes, under every ttl a registry is constructed   *)
(* with, zero included.  Time never stops.                                  *)

MaxLiveTime == 5
MaxLiveTTL == 2

\* NewRegistryWithTTL(client, ttl, logger): ttl is not checked
InitLive ==
    /\ now = 0
    /\ flight = NoFlight
    /\ ttl \in 0..MaxLiveTTL
    /\ store = [k \in Keys |-> Absent]
    /\ last = Returned

\* time passes whatever the callers do
LiveTick ==
    /\ now < MaxLiveTime
    /\ now' = now + 1
    /\ store' = [k \in Keys |-> IF Expired(store[k], now + 1) THEN Absent ELSE store[k]]
    /\ UNCHANGED <<flight, ttl, last>>

\* the worker writes no later than ttl before the end of the observed time
CanWrite == now + ttl < MaxLiveTime

LiveStatuses == {WorkerStatusIdle, WorkerStatusBusy}

LiveRegisterInputs ==
    [id : {IdExecutor}, type : {WorkerTypeExecutor}, status : LiveStatuses,
     registered_at : {0, now}, last_heartbeat : {0, now},
     current_task : {""}, pending_tasks : {0}]

LiveRegister ==
    /\ IsIdle
    /\ CanWrite
    /\ \E worker \in LiveRegisterInputs, setOk \in BOOLEAN : Register(worker, setOk)

LiveHeartbeat ==
    /\ IsIdle
    /\ CanWrite
    /\ \E status \in LiveStatuses, getOk \in BOOLEAN, setOk \in BOOLEAN :
        \E reply \in {ReplyNoGroup, ReplyTimeout} :
            Heartbeat(IdExecutor, status, "", getOk, reply, setOk)

LiveUnregister ==
    /\ IsIdle
    /\ Unregister(IdExecutor, TRUE)

LiveGetWorker ==
    /\ last.op \in {"none", "Register", "Heartbeat"}
    /\ \E getOk \in BOOLEAN : GetWorkerCall(IdExecutor, getOk)

NextLive ==
    \/ LiveTick
    \/ Return
    \/ LiveRegister
    \/ LiveHeartbeat
    \/ LiveUnregister
    \/ LiveGetWorker

SpecLive == InitLive /\ [][NextLive]_vars /\ WF_vars(LiveTick)

----------------------------------------------------------------------------
(* SpecLLM: the LLM client factory, llm.NewClient, a pure function of its   *)
(* Config and of whether the provider's SDK constructor succeeds            *)

NoClient == "nil"
ErrKeyRequired == "API key is required"
ErrGeminiClient == "failed to create Gemini client"
ErrOllamaClient == "failed to create Ollama client"
ErrUnsupported == "unsupported LLM provider"
defaultEndpoint == "http://localhost:11434"

\* an anthropic.NewClient that accepts an empty API key
anthropicNewClientNoCheck(apiKey) ==
    [client |-> "anthropic", err |-> "", endpoint |-> ""]

\* anthropic.NewClient(apiKey, logger)
anthropicNewClient(apiKey) ==
    IF apiKey = "" THEN [client |-> NoClient, err |-> ErrKeyRequired, endpoint |-> ""]
    ELSE [client |-> "anthropic", err |-> "", endpoint |-> ""]

\* openai.NewClient(apiKey, logger)
openaiNewClient(apiKey) ==
    IF apiKey = "" THEN [client |-> NoClient, err |-> ErrKeyRequired, endpoint |-> ""]
    ELSE [client |-> "openai", err |-> "", endpoint |-> ""]

\* gemini.NewClient(apiKey, logger); sdkOk: genai.NewClient returned no error
geminiNewClient(apiKey, sdkOk) ==
    IF apiKey = "" THEN [client |-> NoClient, err |-> ErrKeyRequired, endpoint |-> ""]
    ELSE IF ~sdkOk THEN [client |-> NoClient, err |-> ErrGeminiClient, endpoint |-> ""]
    ELSE [client |-> "gemini", err |-> "", endpoint |-> ""]

\* ollama.NewClient(endpoint, logger); sdkOk: api.ClientFromEnvironment
\* returned no error
ollamaNewClient(endpoint, sdkOk) ==
    IF ~sdkOk THEN [client |-> NoClient, err |-> ErrOllamaClient, endpoint |-> ""]
    ELSE [client |-> "ollama", err |-> "",
          endpoint |-> IF endpoint = "" THEN defaultEndpoint ELSE endpoint]

\* llm.NewClient(cfg)
NewClient(cfg, sdkOk) ==
    IF cfg.Provider \in {"anthropic", "claude"} THEN anthropicNewClient(cfg.APIKey)
    ELSE IF cfg.Provider \in {"openai", "gpt"} THEN openaiNewClient(cfg.APIKey)
    ELSE IF cfg.Provider \in {"gemini", "google"} THEN geminiNewClient(cfg.APIKey, sdkOk)
    ELSE IF cfg.Provider \in {"ollama", "local"}
    THEN ollamaNewClient(IF cfg.BaseURL = "" THEN defaultEndpoint ELSE cfg.BaseURL, sdkOk)
    ELSE [client |-> NoClient, err |-> ErrUnsupported, endpoint |-> ""]

Providers ==
    {"anthropic", "claude", "openai", "gpt", "gemini", "google", "ollama", "local",
     "unsupported", "", "Anthropic", "mistral"}
APIKeys == {"", "test-key", "sk-2"}
BaseURLs == {"", "http://ollama:11434"}
Configs == [Provider : Providers, APIKey : APIKeys, BaseURL : BaseURLs]

InitLLM ==
    /\ now = 0
    /\ flight = NoFlight
    /\ ttl = MaxTTL
    /\ store = [k \in Keys |-> Absent]
    /\ last = Returned

DoNewClient ==
    /\ IsIdle
    /\ \E cfg \in Configs, sdkOk \in BOOLEAN :
        last' = [op |-> "NewClient", cfg |-> cfg, sdkOk |-> sdkOk,
                 result |-> NewClient(cfg, sdkOk)]
    /\ UNCHANGED <<flight, now, ttl, store>>

NextLLM ==
    \/ DoNewClient
    \/ Return

SpecLLM == InitLLM /\ [][NextLLM]_vars

----------------------------------------------------------------------------
(* SpecPending: getPendingTasksForWorker as a function of the worker, its  *)
(* type and the state of the queue that XINFO CONSUMERS is asked about     *)

\* a worker type that is neither Executor nor Router
TypeOther == "planner"
PendingTypes == WorkerTypes \cup {TypeOther}

\* the consumers of a group: none, another worker only, the worker with p
\* pending entries, alone or after another worker
ConsumerLists(workerID) ==
    {<<>>, <<[name |-> <<"other">>, pending |-> MaxPending]>>}
    \cup {<<[name |-> workerID, pending |-> p]>> : p \in 0..MaxPending}
    \cup {<<[name |-> <<"other">>, pending |-> MaxPending],
            [name |-> workerID, pending |-> p]>> : p \in 0..MaxPending}

\* the queue of a worker type: whether its stream and its consumer group
\* exist, and the consumers of the group
Queues(workerID) ==
    {[stream |-> FALSE, group |-> FALSE, consumers |-> <<>>],
     [stream |-> TRUE, group |-> FALSE, consumers |-> <<>>]}
    \cup {[stream |-> TRUE, group |-> TRUE, consumers |-> cs] :
            cs \in ConsumerLists(workerID)}

\* client.XInfoConsumers(ctx, streamKey, consumerGroup).Result(): the server
\* answers "ERR no such key" for a missing stream and "NOGROUP ..." for a
\* missing group of an existing stream
XInfoConsumers(queue, ioOk) ==
    IF ~ioOk THEN ReplyTimeout
    ELSE IF ~queue.stream THEN ReplyNoStream
    ELSE IF ~queue.group THEN ReplyNoGroup
    ELSE ReplyConsumers(queue.consumers)

DoPendingCount ==
    /\ IsIdle
    /\ \E id \in WorkerIDs, type \in PendingTypes, ioOk \in BOOLEAN :
        \E queue \in Queues(id) :
            last' = [op |-> "PendingCount", id |-> id, type |-> type,
                     queue |-> queue, ioOk |-> ioOk,
                     result |-> getPendingTasksForWorker(id, type,
                                    XInfoConsumers(queue, ioOk))]
    /\ UNCHANGED <<flight, now, ttl, store>>

NextPending ==
    \/ DoPendingCount
    \/ Return

SpecPending == InitLLM /\ [][NextPending]_vars

----------------------------------------------------------------------------
(* SpecStats: GetWorkerStats over records of any type and status: Register *)
(* and Heartbeat store the type and the status they are given              *)

StatsIDs == {IdExecutor, IdPlain}

\* a status that is none of Idle, Busy, Unhealthy
StatusNone == ""
StatsStatuses == {WorkerStatusIdle, WorkerStatusBusy, StatusNone}

StatsRegisterInputs ==
    [id : StatsIDs, type : {WorkerTypeExecutor, TypeOther}, status : StatsStatuses,
     registered_at : {now}, last_heartbeat : {now},
     current_task : {""}, pending_tasks : {0, MaxPending}]

StatsRegister ==
    /\ IsIdle
    /\ \E worker \in StatsRegisterInputs : Register(worker, TRUE)

StatsHeartbeat ==
    /\ IsIdle
    /\ \E id \in StatsIDs, status \in {WorkerStatusBusy, StatusNone} :
        Heartbeat(id, status, "", TRUE, ReplyNoGroup, TRUE)

StatsGetWorkerStats ==
    /\ IsIdle
    /\ \E type \in PendingTypes, scanOk \in BOOLEAN, getFail \in FaultSets :
        GetWorkerStatsCall(type, scanOk, getFail)

NextStats ==
    \/ Tick
    \/ Return
    \/ StatsRegister
    \/ StatsHeartbeat
    \/ StatsGetWorkerStats

SpecStats == Init /\ [][NextStats]_vars

----------------------------------------------------------------------------
(* SpecRace: calls that overlap.  A Heartbeat is two steps, its read        *)
(* (GetWorker and the record built from it) and its write (Set); a scan is  *)
(* its SCAN, then for each key a Get and, in a sweep, a Del.  Register,     *)
(* Unregister, the passing of time and key expiry run in between.           *)

RaceIDs == {IdExecutor, IdRouter}
RaceTimeouts == {0, 1}
ScanKinds == {"ListWorkers", "CleanupStaleWorkers"}
NoFilter == [Types |-> <<>>, Statuses |-> <<>>, HealthyOnly |-> FALSE]

\* the results of the calls that returned have been taken
Quiet ==
    /\ IsIdle
    /\ flight.hb.pc # "done"
    /\ flight.sw.pc # "done"

\* the callers take the results of the calls that returned
RaceReturn ==
    /\ ~Quiet
    /\ last' = Returned
    /\ flight' = [hb |-> IF flight.hb.pc = "done" THEN NoFlight.hb ELSE flight.hb,
                  sw |-> IF flight.sw.pc = "done" THEN NoFlight.sw ELSE flight.sw]
    /\ UNCHANGED <<now, ttl, store>>

RaceRegister ==
    /\ Quiet
    /\ \E id \in RaceIDs :
        Register([id |-> id, type |-> inferWorkerType(id),
                  status |-> WorkerStatusIdle, registered_at |-> now,
                  last_heartbeat |-> now, current_task |-> "",
                  pending_tasks |-> 0], TRUE)

RaceUnregister ==
    /\ Quiet
    /\ \E id \in RaceIDs : Unregister(id, TRUE)

\* Heartbeat up to its Set: GetWorker, the record, the pending tasks
HeartbeatRead(workerID, status) ==
    /\ Quiet
    /\ flight.hb.pc = "idle"
    /\ flight' = [flight EXCEPT !.hb =
            [pc |-> "read", id |-> workerID,
             found |-> store[getWorkerKey(workerID)].present,
             type |-> IF store[getWorkerKey(workerID)].present
                      THEN Unmarshal(store[getWorkerKey(workerID)].data).type ELSE "",
             worker |-> HeartbeatRecord(store, workerID, status, "", TRUE,
                                        ReplyNoGroup)]]
    /\ UNCHANGED <<now, ttl, store, last>>

\* the Set of Heartbeat, and its return
HeartbeatWrite ==
    /\ flight.hb.pc = "read"
    /\ store' = redisSet(store, getWorkerKey(flight.hb.id), Marshal(flight.hb.worker))
    /\ flight' = [flight EXCEPT !.hb.pc = "done"]
    /\ UNCHANGED <<now, ttl, last>>

RaceHeartbeatRead ==
    \E id \in RaceIDs : HeartbeatRead(id, WorkerStatusBusy)

\* time.Since(worker.LastHeartbeat) > timeout
sweepDue(worker, timeout) == now - worker.last_heartbeat > timeout

\* the loop goes on to the next key, or the call returns
nextKey(sw) ==
    [sw EXCEPT !.keys = Tail(@),
               !.pc = IF Tail(sw.keys) = <<>> THEN "done" ELSE "get"]

\* a scan that returns the error of the first key it cannot fetch
afterSkipAbort(sw, key, why) ==
    [sw EXCEPT !.keys = <<>>, !.pc = "done", !.err = ErrGet,
               !.gone = IF why = "nil" THEN @ \cup {key} ELSE @,
               !.failed = IF why = "nil" THEN @ ELSE @ \cup {key}]

\* continue: the key is skipped
afterSkip(sw, key, why) ==
    [nextKey(sw) EXCEPT !.gone = IF why = "nil" THEN @ \cup {key} ELSE @,
                        !.failed = IF why = "nil" THEN @ ELSE @ \cup {key}]

\* scanKeys, and the return at once when no key is found
ScanStart(kind, timeout) ==
    /\ Quiet
    /\ flight.sw.pc = "idle"
    /\ flight' = [flight EXCEPT !.sw =
            [pc |-> IF scanKeys(store) = <<>> THEN "done" ELSE "get",
             kind |-> kind, timeout |-> timeout, err |-> ErrNone,
             scanned |-> Present(store), keys |-> scanKeys(store),
             gone |-> {}, failed |-> {}, kept |-> {}, deleted |-> {},
             destroyed |-> {}, workers |-> <<>>, cleaned |-> 0,
             cur |-> NoWorker]]
    /\ UNCHANGED <<now, ttl, store, last>>

\* the Get of the next key, its decoding, and what the loop does with it
ScanFetch(getOk) ==
    /\ flight.sw.pc = "get"
    /\ LET sw == flight.sw
           key == Head(sw.keys)
           got == redisGet(store, key, getOk)
           worker == Unmarshal(got.data)
           isHealthy == now - worker.last_heartbeat <= ttl
           listed == IF isHealthy THEN worker
                     ELSE [worker EXCEPT !.status = WorkerStatusUnhealthy]
       IN flight' = [flight EXCEPT !.sw =
            IF got.err # "" THEN afterSkip(sw, key, got.err)
            ELSE IF sw.kind = "CleanupStaleWorkers"
            THEN IF sweepDue(worker, sw.timeout)
                 THEN [sw EXCEPT !.pc = "del", !.cur = worker]
                 ELSE [nextKey(sw) EXCEPT !.kept = @ \cup {key}]
            ELSE IF matchesFilter(listed, NoFilter, isHealthy)
                 THEN [nextKey(sw) EXCEPT !.kept = @ \cup {key},
                                          !.workers = Append(@, listed)]
                 ELSE nextKey(sw)]
    /\ UNCHANGED <<now, ttl, store, last>>

\* the Del of a key whose record was read stale
ScanDelete ==
    /\ flight.sw.pc = "del"
    /\ LET sw == flight.sw
           key == Head(sw.keys)
       IN /\ store' = redisDel(store, key)
          /\ flight' = [flight EXCEPT !.sw =
                [nextKey(sw) EXCEPT
                    !.deleted = @ \cup {key},
                    !.cleaned = @ + 1,
                    !.cur = NoWorker,
                    !.destroyed =
                        IF /\ store[key].present
                           /\ Unmarshal(store[key].data).last_heartbeat
                                 > sw.cur.last_heartbeat
                        THEN @ \cup {key} ELSE @]]
    /\ UNCHANGED <<now, ttl, last>>

RaceScanStart ==
    \E kind \in ScanKinds, timeout \in RaceTimeouts : ScanStart(kind, timeout)

RaceScanFetch ==
    \E getOk \in BOOLEAN : ScanFetch(getOk)

\* time passes during the calls in flight
RaceTick ==
    /\ now < MaxTime
    /\ now' = now + 1
    /\ store' = [k \in Keys |-> IF Expired(store[k], now + 1) THEN Absent ELSE store[k]]
    /\ UNCHANGED <<ttl, last, flight>>

NextRace ==
    \/ RaceTick
    \/ RaceReturn
    \/ RaceRegister
    \/ RaceUnregister
    \/ RaceHeartbeatRead
    \/ HeartbeatWrite
    \/ RaceScanStart
    \/ RaceScanFetch
    \/ ScanDelete

SpecRace == Init /\ [][NextRace]_vars

----------------------------------------------------------------------------
(* SpecType: a worker registered with either type, under Heartbeats that    *)
(* overlap its Register and Unregister and under expiry                     *)

TypeRegister ==
    /\ Quiet
    /\ \E id \in RaceIDs, type \in WorkerTypes :
        Register([id |-> id, type |-> type,
                  status |-> WorkerStatusIdle, registered_at |-> now,
                  last_heartbeat |-> now, current_task |-> "",
                  pending_tasks |-> 0], TRUE)

NextType ==
    \/ RaceTick
    \/ RaceReturn
    \/ TypeRegister
    \/ RaceUnregister
    \/ RaceHeartbeatRead
    \/ HeartbeatWrite

SpecType == Init /\ [][NextType]_vars

----------------------------------------------------------------------------
(* Properties *)

StoredWorker(st, workerID) == Unmarshal(st[getWorkerKey(workerID)].data)

InList(list, x) == \E i \in 1..Len(list) : list[i] = x

\* C1: Register(r) followed directly by GetWorker(r.id), no later than ttl
\* after r.last_heartbeat, returns r in every field but status, which is r's or
\* Unhealthy; also when Register replaced an earlier record of the id.
C1_RegisterThenGetWorker ==
    (/\ last.op = "GetWorker"
     /\ last.getOk
     /\ last.registered # NoWorker
     /\ now - last.registered.last_heartbeat <= ttl)
    => /\ last.err = ErrNone
       /\ [last.worker EXCEPT !.status = ""] = [last.registered EXCEPT !.status = ""]
       /\ last.worker.status \in {last.registered.status, WorkerStatusUnhealthy}

\* C1 witness: a GetWorker, after time has passed, of a record whose Register
\* replaced an earlier record of the id.
C1_Witness ==
    /\ last.op = "GetWorker"
    /\ last.getOk
    /\ last.replaced
    /\ last.err = ErrNone
    /\ last.worker = last.registered
    /\ last.worker.registered_at # last.worker.last_heartbeat
    /\ now > last.worker.last_heartbeat
    /\ now - last.worker.last_heartbeat <= ttl

\* C2: a record GetWorker returns when now - last_heartbeat > ttl has status
\* Unhealthy, whatever status is stored; the only other outcomes are not-found
\* and the error of the read.
C2_StaleIsUnhealthy ==
    last.op = "GetWorker"
    => /\ last.err \in {ErrNone, ErrNotFound, ErrGet}
       /\ (last.getOk => last.err # ErrGet)
       /\ (last.err = ErrNone /\ now - last.worker.last_heartbeat > ttl
           => last.worker.status = WorkerStatusUnhealthy)

\* C2 witness: GetWorker returns Unhealthy for a record stored as Idle.
C2_Witness ==
    /\ last.op = "GetWorker"
    /\ last.err = ErrNone
    /\ now - last.worker.last_heartbeat > ttl
    /\ last.worker.status = WorkerStatusUnhealthy
    /\ StoredWorker(store, last.id).status = WorkerStatusIdle

\* the type the claim gives an id
InferredAsClaimed(workerID, type) ==
    /\ Contains(workerID, executorSubstr) => type = WorkerTypeExecutor
    /\ Contains(workerID, routerSubstr) /\ ~Contains(workerID, executorSubstr)
       => type = WorkerTypeRouter
    /\ ~Contains(workerID, routerSubstr) /\ ~Contains(workerID, executorSubstr)
       => type = WorkerTypeExecutor

\* C3: a Heartbeat on an id with no stored record does not fail with not-found;
\* unless its write fails, it returns no error and leaves a record of that id
\* with the given status and current_task, registered_at = last_heartbeat = now
\* and the type inferred from the id.
C3_HeartbeatSelfHeals ==
    (last.op = "Heartbeat" /\ last.absent)
    => /\ last.err \in {ErrNone, ErrHeartbeat}
       /\ last.err = ErrNone
          => /\ store[getWorkerKey(last.id)].present
             /\ LET w == StoredWorker(store, last.id) IN
                /\ w.id = last.id
                /\ w.status = last.status
                /\ w.current_task = last.task
                /\ w.registered_at = now
                /\ w.last_heartbeat = now
                /\ InferredAsClaimed(last.id, w.type)

\* C3 witness: a Heartbeat has created the record of "router-executor", late
\* enough for now to differ from the zero time.
C3_Witness ==
    /\ last.op = "Heartbeat"
    /\ last.absent
    /\ last.err = ErrNone
    /\ last.id = IdBoth
    /\ last.status = WorkerStatusBusy
    /\ now > 0
    /\ StoredWorker(store, last.id).type = WorkerTypeExecutor

\* C9 (as claimed): a Heartbeat whose read of a stored record fails with a
\* store error returns an error and leaves the record as it is.
C9_ReadErrorSurfaced ==
    [][(/\ last'.op = "Heartbeat"
        /\ IsIdle
        /\ ~last'.getOk
        /\ store[getWorkerKey(last'.id)].present)
       => (last'.err # ErrNone /\ store' = store)]_vars

\* C10 (as claimed): a Heartbeat whose pending-task query fails, and whose
\* write does not, returns no error and stores the given status and
\* current_task, last_heartbeat = now and the renewed ttl, with the
\* pending_tasks the stored record had before; a query that succeeds stores
\* the queried count.
C10_QueueErrorKeepsPending ==
    [][(last'.op = "Heartbeat" /\ IsIdle /\ last'.err = ErrNone)
       => LET key == getWorkerKey(last'.id)
              w == StoredWorker(store', last'.id)
          IN /\ store'[key].present
             /\ store'[key].expireAt = now + ttl
             /\ w.status = last'.status
             /\ w.current_task = last'.task
             /\ w.last_heartbeat = now
             /\ (last'.pending.err /\ store[key].present
                 => w.pending_tasks = StoredWorker(store, last'.id).pending_tasks)
             /\ (~last'.pending.err => w.pending_tasks = last'.pending.val)]_vars

\* the status a reader computes for a stored record
Recomputed(w) ==
    IF now - w.last_heartbeat > ttl THEN [w EXCEPT !.status = WorkerStatusUnhealthy]
    ELSE w

\* the filter as the claim words it
FilterAsClaimed(w, filter) ==
    /\ filter.Types # <<>> => InList(filter.Types, w.type)
    /\ filter.Statuses # <<>> => InList(filter.Statuses, Recomputed(w).status)
    /\ filter.HealthyOnly => now - w.last_heartbeat <= ttl

ListAsClaimed(st, filter) ==
    {Recomputed(Unmarshal(st[k].data)) :
        k \in {j \in Present(st) : FilterAsClaimed(Unmarshal(st[j].data), filter)}}

\* C4: a ListWorkers whose scan and reads succeed returns, once each, exactly
\* the stored records (status recomputed) that satisfy every non-empty
\* predicate of the filter.
C4_ListWorkersExact ==
    (last.op = "ListWorkers" /\ last.err = ErrNone /\ last.getFail = {})
    => /\ {last.workers[i] : i \in 1..Len(last.workers)} = ListAsClaimed(store, last.filter)
       /\ Len(last.workers) = Cardinality(ListAsClaimed(store, last.filter))

\* C4 witness: of three stored workers, the filter {types: [Executor],
\* healthy_only} returns one, while an Executor older than ttl is stored.
C4_Witness ==
    /\ last.op = "ListWorkers"
    /\ last.err = ErrNone
    /\ last.getFail = {}
    /\ last.filter = [Types |-> <<WorkerTypeExecutor>>, Statuses |-> <<>>,
                      HealthyOnly |-> TRUE]
    /\ Cardinality(Present(store)) = 3
    /\ Len(last.workers) = 1
    /\ \E k \in Present(store) :
        /\ Unmarshal(store[k].data).type = WorkerTypeExecutor
        /\ now - Unmarshal(store[k].data).last_heartbeat > ttl

RECURSIVE SumPending(_)
SumPending(S) ==
    IF S = {} THEN 0
    ELSE LET w == CHOOSE x \in S : TRUE IN w.pending_tasks + SumPending(S \ {w})

\* C5: a GetWorkerStats(type) whose scan and reads succeed counts the stored
\* records of that type and no other: their number, the numbers whose
\* recomputed status is Idle, Busy and Unhealthy, and the sum of their
\* pending_tasks.
C5_StatsAggregate ==
    (last.op = "GetWorkerStats" /\ last.err = ErrNone /\ last.getFail = {})
    => LET S == ListAsClaimed(store, [Types |-> <<last.type>>, Statuses |-> <<>>,
                                     HealthyOnly |-> FALSE])
       IN /\ \A w \in S : w.type = last.type
          /\ last.stats.Type = last.type
          /\ last.stats.TotalWorkers = Cardinality(S)
          /\ last.stats.IdleWorkers =
                Cardinality({w \in S : w.status = WorkerStatusIdle})
          /\ last.stats.BusyWorkers =
                Cardinality({w \in S : w.status = WorkerStatusBusy})
          /\ last.stats.UnhealthyWorkers =
                Cardinality({w \in S : w.status = WorkerStatusUnhealthy})
          /\ last.stats.TotalPendingTasks = SumPending(S)

\* C5 witness: statistics of two Executors, one Busy and one Unhealthy with
\* pending tasks, while a Router with pending tasks is stored too.
C5_Witness ==
    /\ last.op = "GetWorkerStats"
    /\ last.err = ErrNone
    /\ last.getFail = {}
    /\ last.type = WorkerTypeExecutor
    /\ last.stats.TotalWorkers = 2
    /\ last.stats.BusyWorkers = 1
    /\ last.stats.UnhealthyWorkers = 1
    /\ last.stats.TotalPendingTasks = MaxPending + 1
    /\ \E k \in Present(store) :
        /\ Unmarshal(store[k].data).type = WorkerTypeRouter
        /\ Unmarshal(store[k].data).pending_tasks > 0

Stale(st, k, timeout) ==
    st[k].present /\ now - Unmarshal(st[k].data).last_heartbeat > timeout

\* C6: a CleanupStaleWorkers(timeout) whose scan, reads and deletes succeed
\* removes exactly the records with now - last_heartbeat > timeout, leaves
\* every other key as it is and returns the number removed (0 when none is
\* stale); the only error it returns is the scan's.
C6_SweepExact ==
    [][(last'.op = "CleanupStaleWorkers" /\ IsIdle)
       => /\ last'.err \in {ErrNone, ErrScan}
          /\ (last'.err = ErrNone /\ last'.getFail = {} /\ last'.delFail = {})
             => /\ \A k \in Keys :
                    store'[k] = IF Stale(store, k, last'.timeout) THEN Absent
                                ELSE store[k]
                /\ last'.cleaned =
                    Cardinality({k \in Keys : Stale(store, k, last'.timeout)})]_vars

\* C6 witness: a sweep has removed one record and kept one exactly timeout old.
C6_Witness ==
    /\ last.op = "CleanupStaleWorkers"
    /\ last.err = ErrNone
    /\ last.getFail = {}
    /\ last.delFail = {}
    /\ last.timeout > 0
    /\ last.cleaned = 1
    /\ \E k \in Present(store) :
        now - Unmarshal(store[k].data).last_heartbeat = last.timeout

\* C7: Unregister(id) fails only when the delete fails; otherwise, whether or
\* not id has a record and also when called twice in a row, it returns no
\* error, leaves no record of id and leaves every other key as it is.
C7_UnregisterIdempotent ==
    [][last'.op = "Unregister"
       => /\ last'.err \in {ErrNone, ErrDel}
          /\ last'.err = ErrNone
             => /\ ~store'[getWorkerKey(last'.id)].present
                /\ \A k \in Keys \ {getWorkerKey(last'.id)} : store'[k] = store[k]
          /\ last'.err = ErrDel => store' = store]_vars

\* C7 witness: the second of two Unregisters in a row has returned no error,
\* another worker being stored.
C7_Witness ==
    /\ last.op = "Unregister"
    /\ last.again
    /\ last.err = ErrNone
    /\ Present(store) # {}

\* a delete of the sweep failed: a stale record, read, is still stored
DeleteFailed ==
    \E k \in last.delFail \ last.getFail : Stale(store, k, last.timeout)

WroteBy(op, workerID) ==
    /\ IsIdle
    /\ last'.op = op
    /\ last'.id = workerID
    /\ last'.err = ErrNone

\* C11 (as claimed): a record stored for an id keeps the registered_at of
\* the record stored for it before.
C11_RegisteredAtNeverUpdated ==
    [][\A id \in WorkerIDs :
        (store[getWorkerKey(id)].present /\ store'[getWorkerKey(id)].present)
        => StoredWorker(store', id).registered_at
              = StoredWorker(store, id).registered_at]_vars

\* C11 (amended): registered_at of the record stored for an id is kept by
\* every Heartbeat whose read of the record succeeds and by every other step
\* that leaves the record stored.  It is replaced by Register, which stores
\* the caller's value, and by a Heartbeat that could not read a record
\* (absent, expired, or a failed read), which stores now.
C11_RegisteredAtSetByWriters ==
    [][\A id \in WorkerIDs :
        LET k == getWorkerKey(id)
            after == StoredWorker(store', id)
        IN store'[k].present
           => \/ /\ store[k].present
                 /\ after.registered_at = StoredWorker(store, id).registered_at
                 /\ ~WroteBy("Register", id)
                 /\ ~(WroteBy("Heartbeat", id) /\ ~last'.getOk)
              \/ /\ WroteBy("Register", id)
                 /\ after.registered_at = last'.worker.registered_at
              \/ /\ WroteBy("Heartbeat", id)
                 /\ ~last'.getOk \/ ~store[k].present
                 /\ after.registered_at = now]_vars

\* C11 witness: a Heartbeat has rewritten a record registered earlier and
\* kept its registered_at.
C11_Witness ==
    /\ last.op = "Heartbeat"
    /\ last.err = ErrNone
    /\ last.getOk
    /\ ~last.absent
    /\ StoredWorker(store, last.id).last_heartbeat = now
    /\ StoredWorker(store, last.id).registered_at < now
    /\ StoredWorker(store, last.id).registered_at = last.read.registered_at

C14_UnhealthyNeverStored ==
    [][\A id \in WorkerIDs :
        LET k == getWorkerKey(id) IN
        (/\ store'[k].present
         /\ store'[k] # store[k]
         /\ StoredWorker(store', id).status = WorkerStatusUnhealthy)
        => \/ WroteBy("Register", id) /\ last'.worker.status = WorkerStatusUnhealthy
           \/ WroteBy("Heartbeat", id) /\ last'.status = WorkerStatusUnhealthy]_vars

\* C14 witness: a Heartbeat that read a record older than ttl, stored as Idle
\* and returned to it as Unhealthy, has written Busy.
C14_Witness ==
    /\ last.op = "Heartbeat"
    /\ last.err = ErrNone
    /\ last.getOk
    /\ ~last.absent
    /\ last.read.status = WorkerStatusUnhealthy
    /\ last.status = WorkerStatusBusy
    /\ StoredWorker(store, last.id).status = WorkerStatusBusy

\* C13: GetWorker, ListWorkers and GetWorkerStats leave every key of the
\* store, its value and its expiry, as it was before the call.
C13_ReadsLeaveStore ==
    [][(last'.op \in {"GetWorker", "ListWorkers", "GetWorkerStats"} /\ last' # last)
       => store' = store]_vars

\* C13 witness: a GetWorker has returned Unhealthy for a record that is
\* stored, after the call, with the status Busy.
C13_Witness ==
    /\ last.op = "GetWorker"
    /\ last.err = ErrNone
    /\ last.worker.status = WorkerStatusUnhealthy
    /\ store[getWorkerKey(last.id)].present
    /\ StoredWorker(store, last.id).status = WorkerStatusBusy
    /\ Cardinality(Present(store)) > 1

\* C15: a successful Register or Heartbeat sets the expiry of the record to
\* ttl after the write, so a GetWorker made less than ttl after the last
\* successful write of the id, nothing but time in between, finds the record;
\* after a Heartbeat it returns the status the worker reported, not Unhealthy.
C15_HeartbeatsKeepRegistered ==
    (/\ last.op = "GetWorker"
     /\ last.getOk
     /\ last.wrote.op # "none"
     /\ now - last.wrote.at < ttl)
    => /\ last.err = ErrNone
       /\ store[getWorkerKey(last.id)].expireAt = last.wrote.at + ttl
       /\ last.wrote.op = "Heartbeat" => last.worker.status = last.wrote.status

\* C15 witness: a record registered at time 0 is found, Busy, more than ttl
\* after time 0 and less than ttl after its last heartbeat.
C15_Witness ==
    /\ last.op = "GetWorker"
    /\ last.getOk
    /\ last.err = ErrNone
    /\ last.wrote.op = "Heartbeat"
    /\ last.wrote.at < now
    /\ now - last.wrote.at < ttl
    /\ now > ttl
    /\ last.worker.registered_at = 0
    /\ last.worker.status = WorkerStatusBusy

\* the record of the worker is stored with the expiry e
StoredUntil(e) ==
    /\ store[getWorkerKey(IdExecutor)].present
    /\ store[getWorkerKey(IdExecutor)].expireAt = e

\* C16 (as claimed): under every ttl, a record that is written no more is
\* eventually absent from the store.
C16_SilentWorkerRemoved ==
    \A e \in {NoExpiry} \cup (0..MaxLiveTime) : StoredUntil(e) ~> ~StoredUntil(e)

Supported ==
    {"anthropic", "claude", "openai", "gpt", "gemini", "google", "ollama", "local"}

NeedsKey == {"anthropic", "claude", "openai", "gpt", "gemini", "google"}

\* the SDK constructor that the provider's client calls can fail: gemini's
\* genai.NewClient and ollama's api.ClientFromEnvironment
SdkFails(cfg, sdkOk) ==
    /\ ~sdkOk
    /\ \/ cfg.Provider \in {"gemini", "google"} /\ cfg.APIKey # ""
       \/ cfg.Provider \in {"ollama", "local"}

\* C17 (as claimed): NewClient returns an error and no client when the
\* provider is not supported or a provider that needs an API key is given
\* none, and a client and no error in every other case.
C17_NewClientByProvider ==
    last.op = "NewClient"
    => IF \/ last.cfg.Provider \notin Supported
          \/ last.cfg.Provider \in NeedsKey /\ last.cfg.APIKey = ""
       THEN last.result.err # "" /\ last.result.client = NoClient
       ELSE last.result.err = "" /\ last.result.client # NoClient

\* C17 (amended): NewClient returns an error and no client when the provider
\* is not supported, when a provider that needs an API key is given none, and
\* when the SDK constructor of gemini or ollama fails; it returns a client of
\* the provider and no error in every other case.
C17_NewClientUnlessSdkFails ==
    last.op = "NewClient"
    => IF \/ last.cfg.Provider \notin Supported
          \/ last.cfg.Provider \in NeedsKey /\ last.cfg.APIKey = ""
          \/ SdkFails(last.cfg, last.sdkOk)
       THEN last.result.err # "" /\ last.result.client = NoClient
       ELSE last.result.err = "" /\ last.result.client # NoClient

\* C17 witness: the alias "claude" with a key has returned the anthropic
\* client.
C17_Witness ==
    /\ last.op = "NewClient"
    /\ last.cfg.Provider = "claude"
    /\ last.cfg.APIKey # ""
    /\ last.result.err = ""
    /\ last.result.client = "anthropic"

\* Unregister has returned nil, no call has started since, and a record of
\* its id is stored
LostUnregister ==
    /\ last.op = "Unregister"
    /\ last.err = ErrNone
    /\ store[getWorkerKey(last.id)].present

\* C18: a record of id is stored again after Unregister(id) returned, no call
\* having started since, only when a Heartbeat of the same id was between its
\* read and its write while Unregister ran: the record is the one that
\* Heartbeat wrote.  Without such an overlap the id stays unregistered.
C18_UnregisterLostOnlyToOverlap ==
    LostUnregister
    => /\ flight.hb.pc = "done"
       /\ flight.hb.id = last.id
       /\ StoredWorker(store, last.id) = flight.hb.worker

\* C18 witness: Unregister has returned nil and the record is stored again,
\* written by a Heartbeat that had read it before the Unregister.
C18_Witness ==
    /\ LostUnregister
    /\ flight.hb.pc = "done"
    /\ flight.hb.id = last.id
    /\ flight.hb.found
    /\ StoredWorker(store, last.id).status = WorkerStatusBusy

\* the step is the Del of a sweep
DeleteStep == flight.sw.pc = "del" /\ flight'.sw.pc # "del"

\* C19: the record a sweep's Del removes has now - last_heartbeat > timeout
\* when the Del takes effect: a heartbeat written between the sweep's read of
\* the record and its Del is not destroyed.
C19_SweepNeverDeletesFresh ==
    [][DeleteStep
       => LET key == Head(flight.sw.keys) IN
          store[key].present
          => now - Unmarshal(store[key].data).last_heartbeat > flight.sw.timeout]_vars

\* What the sweep does ensure: it issues the Del of a key only after it read
\* under that key a record with now - last_heartbeat > timeout; the Del
\* removes whatever the key holds when it takes effect and leaves every other
\* key as it is.
SweepDeletesWhatItReadStale ==
    [][DeleteStep
       => LET key == Head(flight.sw.keys) IN
          /\ flight.sw.cur # NoWorker
          /\ getWorkerKey(flight.sw.cur.id) = key
          /\ now - flight.sw.cur.last_heartbeat > flight.sw.timeout
          /\ ~store'[key].present
          /\ \A k \in Keys \ {key} : store'[k] = store[k]]_vars

\* C20: a ListWorkers or CleanupStaleWorkers whose SCAN succeeded returns no
\* error; every scanned key is either skipped (it had vanished by its Get, or
\* its Get or decoding failed) or processed: listed, or, in a sweep, kept or
\* deleted and counted.
C20_ScanSkipsAndGoesOn ==
    flight.sw.pc = "done"
    => LET sw == flight.sw IN
       /\ sw.err = ErrNone
       /\ sw.gone \cup sw.failed \cup sw.kept \cup sw.deleted = sw.scanned
       /\ Cardinality(sw.gone) + Cardinality(sw.failed) + Cardinality(sw.kept)
             + Cardinality(sw.deleted) = Cardinality(sw.scanned)
       /\ sw.kind = "ListWorkers"
          => /\ {getWorkerKey(sw.workers[i].id) : i \in 1..Len(sw.workers)} = sw.kept
             /\ Len(sw.workers) = Cardinality(sw.kept)
       /\ sw.kind = "CleanupStaleWorkers" => sw.cleaned = Cardinality(sw.deleted)

\* C20 witness: a sweep whose first key had vanished by its Get has deleted
\* the second.
C20_Witness ==
    /\ flight.sw.pc = "done"
    /\ flight.sw.kind = "CleanupStaleWorkers"
    /\ flight.sw.gone = {getWorkerKey(IdExecutor)}
    /\ flight.sw.deleted = {getWorkerKey(IdRouter)}
    /\ flight.sw.cleaned = 1

\* the records of ListAsClaimed whose key is not in skip
ListAsClaimedBut(st, filter, skip) ==
    {Recomputed(Unmarshal(st[k].data)) :
        k \in {j \in Present(st) \ skip : FilterAsClaimed(Unmarshal(st[j].data), filter)}}

\* C21 (as claimed): a ListWorkers that returns no error returns every stored
\* record that matches the filter, also when the fetch of some record failed.
C21_ListCompleteDespiteFaults ==
    (last.op = "ListWorkers" /\ last.err = ErrNone)
    => ListAsClaimed(store, last.filter)
          \subseteq {last.workers[i] : i \in 1..Len(last.workers)}

\* C21 (amended): a ListWorkers that returns no error returns, once each,
\* exactly the stored records matching the filter whose fetch succeeded; a
\* record whose fetch failed is left out.
C21_ListCompleteWhereFetched ==
    (last.op = "ListWorkers" /\ last.err = ErrNone)
    => LET S == ListAsClaimedBut(store, last.filter, last.getFail)
       IN /\ {last.workers[i] : i \in 1..Len(last.workers)} = S
          /\ Len(last.workers) = Cardinality(S)

\* C21 witness: ListWorkers with no filter has returned no error and one of
\* two stored workers: the fetch of the first failed, the second is listed.
C21_Witness ==
    /\ last.op = "ListWorkers"
    /\ last.err = ErrNone
    /\ last.filter = [Types |-> <<>>, Statuses |-> <<>>, HealthyOnly |-> FALSE]
    /\ last.getFail = {getWorkerKey(IdExecutor)}
    /\ Present(store) = {getWorkerKey(IdExecutor), getWorkerKey(IdRouter)}
    /\ Len(last.workers) = 1
    /\ last.workers[1].id = IdRouter

\* the consumer names of a queue
ConsumerNames(queue) == {queue.consumers[i].name : i \in 1..Len(queue.consumers)}

\* C22: the pending-task lookup of a worker of a recognized type returns 0
\* and no error when the stream does not exist, when the consumer group does
\* not exist, or when the worker is no consumer of the group; it returns the
\* worker's pending count when it is a consumer; it returns an error only for
\* another I/O failure.
C22_PendingCountZeroOrCount ==
    (last.op = "PendingCount" /\ last.type \in WorkerTypes)
    => LET q == last.queue
           known == q.stream /\ q.group /\ last.id \in ConsumerNames(q)
       IN /\ last.result.err => ~last.ioOk
          /\ (last.ioOk /\ ~known) => last.result = [val |-> 0, err |-> FALSE]
          /\ (last.ioOk /\ known)
             => /\ ~last.result.err
                /\ \E i \in 1..Len(q.consumers) :
                     /\ q.consumers[i].name = last.id
                     /\ q.consumers[i].pending = last.result.val

\* the records GetWorkerStats of last.type fetched: stored, of that type,
\* status recomputed
StatsFetched ==
    ListAsClaimedBut(store, [Types |-> <<last.type>>, Statuses |-> <<>>,
                             HealthyOnly |-> FALSE], last.getFail)

\* C23 (as claimed): GetWorkerStats of a type that is neither Executor nor
\* Router fails.
C23_StatsRefusesUnknownType ==
    (last.op = "GetWorkerStats" /\ last.err = ErrNone) => last.type \in WorkerTypes

\* C23 (amended): GetWorkerStats fails only when the key scan fails; for a
\* type that is neither Executor nor Router it returns no error and the
\* statistics of the stored records of exactly that type: all zero when there
\* is none.
C23_StatsOfAnyType ==
    last.op = "GetWorkerStats"
    => /\ last.err \in {ErrNone, ErrScan}
       /\ (last.err = ErrNone /\ last.type \notin WorkerTypes)
          => /\ last.stats.Type = last.type
             /\ last.stats.TotalWorkers = Cardinality(StatsFetched)
             /\ \A w \in StatsFetched : w.type = last.type
             /\ StatsFetched = {} => last.stats = [NoStats EXCEPT !.Type = last.type]

\* C23 witness: GetWorkerStats("planner") has returned no error and counts
\* the one stored record of that type.
C23_Witness ==
    /\ last.op = "GetWorkerStats"
    /\ last.err = ErrNone
    /\ last.type = TypeOther
    /\ last.stats.TotalWorkers = 1
    /\ Cardinality(Present(store)) = 2

\* C25 (as claimed): every result of GetWorkerStats has
\* TotalWorkers = IdleWorkers + BusyWorkers + UnhealthyWorkers.
C25_StatsTotalIsSum ==
    (last.op = "GetWorkerStats" /\ last.err = ErrNone)
    => last.stats.TotalWorkers =
          last.stats.IdleWorkers + last.stats.BusyWorkers + last.stats.UnhealthyWorkers

\* C25 (amended): TotalWorkers is IdleWorkers + BusyWorkers +
\* UnhealthyWorkers plus the number of listed records whose recomputed status
\* is none of Idle, Busy, Unhealthy; those are counted in TotalWorkers (and
\* in TotalPendingTasks) and in no status counter.
C25_StatsTotalIsSumPlusOthers ==
    (last.op = "GetWorkerStats" /\ last.err = ErrNone)
    => LET others == {w \in StatsFetched : w.status \notin WorkerStatuses}
       IN /\ last.stats.TotalWorkers =
                last.stats.IdleWorkers + last.stats.BusyWorkers
                + last.stats.UnhealthyWorkers + Cardinality(others)
          /\ last.stats.IdleWorkers =
                Cardinality({w \in StatsFetched : w.status = WorkerStatusIdle})
          /\ last.stats.TotalPendingTasks = SumPending(StatsFetched)

\* C25 witness: the statistics of one Executor with the empty status and
\* pending tasks: TotalWorkers is 1 and every status counter is 0.
C25_Witness ==
    /\ last.op = "GetWorkerStats"
    /\ last.err = ErrNone
    /\ last.type = WorkerTypeExecutor
    /\ last.stats.TotalWorkers = 1
    /\ last.stats.IdleWorkers = 0
    /\ last.stats.BusyWorkers = 0
    /\ last.stats.UnhealthyWorkers = 0
    /\ last.stats.TotalPendingTasks = MaxPending

\* C24 (as claimed): once Register has returned, the record stored for its id
\* has the registered type, whatever Heartbeat wrote it.
C24_RegisteredTypeKept ==
    (last.op = "Register" /\ last.err = ErrNone
     /\ store[getWorkerKey(last.id)].present)
    => StoredWorker(store, last.id).type = last.worker.type

\* C24 (amended): a record is written by Register, with the type it is given,
\* or by Heartbeat, which keeps the type of the record it read and, when it
\* found none, stores the type inferred from the id, whatever type had been
\* registered.
C24_TypeRegisteredReadOrInferred ==
    [][\A id \in RaceIDs :
         LET k == getWorkerKey(id) IN
         (store'[k].present /\ store'[k] # store[k])
         => LET t == Unmarshal(store'[k].data).type IN
            IF last.op = "none" /\ last'.op = "Register"
            THEN last'.id = id /\ t = last'.worker.type
            ELSE /\ flight.hb.pc = "read"
                 /\ flight'.hb.pc = "done"
                 /\ flight.hb.id = id
                 /\ flight.hb.found => t = flight.hb.type
                 /\ ~flight.hb.found => InferredAsClaimed(id, t)]_vars

\* C24 witness: Register("router-1", Executor) has returned and the record
\* stored for the id is a Router: a Heartbeat that had found the id absent
\* wrote it after the Register.
C24_Witness ==
    /\ last.op = "Register"
    /\ last.err = ErrNone
    /\ last.id = IdRouter
    /\ last.worker.type = WorkerTypeExecutor
    /\ flight.hb.pc = "done"
    /\ flight.hb.id = IdRouter
    /\ ~flight.hb.found
    /\ store[getWorkerKey(IdRouter)].present
    /\ StoredWorker(store, IdRouter).type = WorkerTypeRouter

====
